---------------------------- MODULE Spec2Model ----------------------------
(***************************************************************************)
(* CNC factory simulator (Untitled-1.py, final revision; unnamed/part_000  *)
(* is the earlier revision of the same file).                              *)
(*                                                                         *)
(* Numbers.  Every sensor value is a decimal with at most two places       *)
(* (round(..., 2) or round(..., 1)).  A value v is modelled by the integer *)
(* v * Scale, so 82.5 is 8250 and the comparisons of the code are the same *)
(* comparisons on the integers.  Fx(u, h) writes u + h/100.                *)
(*                                                                         *)
(* Dictionaries are functions with a finite domain of strings; a missing   *)
(* key is a key outside DOMAIN, None is the value None below.              *)
(***************************************************************************)
EXTENDS Integers, Sequences, FiniteSets, TLC

VARIABLES
    fs,               \* the files the KG sources are read from: name -> file
    maintenance_map,  \* module-level tables filled by load_kg_csv
    normal_map,
    cyberattack_map,
    MODE,             \* the environment variable read by get_data_source
    sensors,          \* CNCFactory.sensors: the names of the configured sensors
    tools,            \* AutomaticToolChanger.tools
    current_tool,     \* AutomaticToolChanger.current_tool
    num_cycles,       \* the bound of the run loop
    cycle,            \* the loop variable of the run loop
    pc,               \* the statement the program is at
    machine_data,     \* run_cycle's locals
    sensor_readings,
    msg,
    classification,
    read_calls,       \* how many Sensor.read() calls the current cycle has made
    clock,            \* time.time(), in seconds since the start
    record,           \* the record send_to_KG printed last
    stdout,           \* the cycle_id of every record printed, in order
    atc_arg,          \* argument and result of the last check_and_change_tool
    atc_ret

vars == <<fs, maintenance_map, normal_map, cyberattack_map, MODE, sensors,
          tools, current_tool, num_cycles, cycle, pc, machine_data,
          sensor_readings, msg, classification, read_calls, clock, record,
          stdout, atc_arg, atc_ret>>

---------------------------------------------------------------------------
(* Values *)

Scale == 100
Fx(u, h) == u * Scale + h

None == [py |-> "None"]
EmptyDict == [k \in {} |-> 0]
KeyError == "KeyError"

Abs(x) == IF x < 0 THEN -x ELSE x
SetMax(S) == CHOOSE m \in S : \A y \in S : y <= m
Range(f) == {f[i] : i \in DOMAIN f}

\* dict.update / {**a, **b}: the keys of both, b's value where both have the key
dict_update(a, b) ==
    [k \in DOMAIN a \cup DOMAIN b |-> IF k \in DOMAIN b THEN b[k] ELSE a[k]]

\* a.get(k): the value, or None
dict_get(a, k) == IF k \in DOMAIN a THEN a[k] ELSE None

---------------------------------------------------------------------------
(* classify_state *)

\* what a block of classify_state yields when none of its return statements ran
Fallthrough == "fallthrough"

EXPECTED_POSITION == [X |-> Fx(50, 0), Y |-> Fx(30, 0), Z |-> Fx(10, 0)]
TOLERANCE_WARNING == Fx(5, 0)
TOLERANCE_CRITICAL == Fx(10, 0)
Axes == {"X", "Y", "Z"}

\* variant: the upper bound of the first test exclusive
spindle_block_exclusive(s) ==
    IF "spindle_temp" \notin DOMAIN s THEN KeyError
    ELSE IF s.spindle_temp > Fx(75, 0) /\ s.spindle_temp < Fx(90, 0)
         THEN "Maintenance_KG:Possible_Overheating"
    ELSE IF s.spindle_temp >= Fx(90, 0)
         THEN IF "power_draw" \notin DOMAIN s THEN KeyError
              ELSE IF s.power_draw > Fx(350, 0) /\ s.power_draw < Fx(400, 0)
                   THEN "Cyberattack_KG:Possible_Glitch/Firmware"
              ELSE IF s.power_draw >= Fx(400, 0)
                   THEN "Cyberattack_KG:Likely_Glitch/Firmware"
              ELSE "Maintenance_KG:Spindle_Overheat"
    ELSE Fallthrough

spindle_block(s) ==
    IF "spindle_temp" \notin DOMAIN s THEN KeyError
    ELSE IF s.spindle_temp > Fx(75, 0) /\ s.spindle_temp <= Fx(90, 0)
         THEN "Maintenance_KG:Possible_Overheating"
    ELSE IF s.spindle_temp > Fx(90, 0)
         THEN IF "power_draw" \notin DOMAIN s THEN KeyError
              ELSE IF s.power_draw > Fx(350, 0) /\ s.power_draw < Fx(400, 0)
                   THEN "Cyberattack_KG:Possible_Glitch/Firmware"
              ELSE IF s.power_draw >= Fx(400, 0)
                   THEN "Cyberattack_KG:Likely_Glitch/Firmware"
              ELSE "Maintenance_KG:Spindle_Overheat"
    ELSE Fallthrough

vibration_block(s) ==
    IF "vibration" \notin DOMAIN s THEN KeyError
    ELSE IF s.vibration > Fx(1, 50) /\ s.vibration <= Fx(3, 50)
         THEN "Cyberattack_KG:Possible_Vibration_Sabotage"
    ELSE IF s.vibration > Fx(3, 50)
         THEN "Cyberattack_KG:Likely_Vibration_Sabotage"
    ELSE Fallthrough

power_block(s) ==
    IF "power_draw" \notin DOMAIN s THEN KeyError
    ELSE IF s.power_draw >= Fx(350, 0) /\ s.power_draw < Fx(400, 0)
         THEN "PowerDraw_KG:Possible_Elevated_Load"
    ELSE IF s.power_draw >= Fx(400, 0)
         THEN "PowerDraw_KG:High_Power_Consumption"
    ELSE Fallthrough

max_dev(pos) == SetMax({Abs(pos[axis] - EXPECTED_POSITION[axis]) : axis \in Axes})

position_block(s) ==
    IF "position" \notin DOMAIN s THEN KeyError
    ELSE IF ~(Axes \subseteq DOMAIN s.position) THEN KeyError
    ELSE IF max_dev(s.position) > TOLERANCE_WARNING
            /\ max_dev(s.position) <= TOLERANCE_CRITICAL
         THEN "Maintenance_KG:Minor_Position_Drift"
    ELSE IF max_dev(s.position) > TOLERANCE_CRITICAL
         THEN "Cyberattack_KG:Major_Position_Change"
    ELSE Fallthrough

\* machine.get("tool_id") and ...: the get is false when it yields None (the key
\* is absent) and when it yields 0
tool_block(m) ==
    IF /\ "tool_id" \in DOMAIN m
       /\ m.tool_id # 0
       /\ m.tool_id \notin {1, 2, 3}
    THEN "Maintenance_KG:Tool_Change"
    ELSE Fallthrough

\* variant: sensors.get("inspection") in place of sensors["inspection"]
inspection_block_default(s) ==
    IF "inspection" \in DOMAIN s /\ s.inspection = "FAIL"
    THEN "Normal_KG:Inspection_Fail"
    ELSE "Normal_KG:Operation_Normal"

inspection_block(s) ==
    IF "inspection" \notin DOMAIN s THEN KeyError
    ELSE IF s.inspection = "FAIL" THEN "Normal_KG:Inspection_Fail"
    ELSE "Normal_KG:Operation_Normal"

\* variant: the power tests ahead of the vibration tests
classify_state_reordered(s, m) ==
    IF spindle_block(s) # Fallthrough THEN spindle_block(s)
    ELSE IF power_block(s) # Fallthrough THEN power_block(s)
    ELSE IF vibration_block(s) # Fallthrough THEN vibration_block(s)
    ELSE IF position_block(s) # Fallthrough THEN position_block(s)
    ELSE IF tool_block(m) # Fallthrough THEN tool_block(m)
    ELSE inspection_block(s)

\* the blocks in the order of the function; the first that returns or raises ends it
classify_state(s, m) ==
    IF spindle_block(s) # Fallthrough THEN spindle_block(s)
    ELSE IF vibration_block(s) # Fallthrough THEN vibration_block(s)
    ELSE IF power_block(s) # Fallthrough THEN power_block(s)
    ELSE IF position_block(s) # Fallthrough THEN position_block(s)
    ELSE IF tool_block(m) # Fallthrough THEN tool_block(m)
    ELSE inspection_block(s)

---------------------------------------------------------------------------
(* load_kg_csv *)

\* A file is [exists, openable, rows]: rows are what csv.DictReader yields, one
\* function from the header's column names to cells per data line.  A cell is
\* <<leading blanks, text, trailing blanks>>; str.strip keeps the text.
str_strip(cell) == cell[2]

KGColumns == {"Source entity", "relationship", "target entity"}

RECURSIVE load_rows(_, _, _)
\* the for loop over the reader: [raised, mapping] after rows i..Len(rows)
load_rows(rows, i, mapping) ==
    IF i > Len(rows) THEN [raised |-> FALSE, mapping |-> mapping]
    ELSE IF ~(KGColumns \subseteq DOMAIN rows[i])
         THEN [raised |-> TRUE, mapping |-> mapping]
    ELSE load_rows(rows, i + 1,
             dict_update(mapping,
                 [k \in {str_strip(rows[i]["Source entity"])} |->
                     [relationship |-> str_strip(rows[i]["relationship"]),
                      target_entity |-> str_strip(rows[i]["target entity"])]]))

\* only FileNotFoundError is caught; any other error of open() or of a row leaves
\* the function as an exception
load_kg_csv(file) ==
    IF ~file.exists THEN [raised |-> FALSE, mapping |-> EmptyDict]
    ELSE IF ~file.openable THEN [raised |-> TRUE, mapping |-> EmptyDict]
    ELSE load_rows(file.rows, 1, EmptyDict)

---------------------------------------------------------------------------
(* Sensors, tool changer, machines *)

SensorNames == {"spindle_temp", "vibration", "power_draw", "position", "inspection"}

\* AutomaticToolChanger.__init__: the tool mounted first
ATC_init(tls) == tls[1]

\* variant: the choice made among the tools 1..5 whatever the list holds
check_and_change_tool_fixed_list(cur, tls, cycle_id) ==
    IF cycle_id % 10 = 0 THEN 1..5 ELSE {cur}

\* variant: a change every 5th cycle
check_and_change_tool_every5(cur, tls, cycle_id) ==
    IF cycle_id % 5 = 0 THEN Range(tls) ELSE {cur}

\* check_and_change_tool: the values current_tool can have after the call, which
\* is also what the call returns (random.choice picks any element of the list)
check_and_change_tool(cur, tls, cycle_id) ==
    IF cycle_id % 10 = 0 THEN Range(tls) ELSE {cur}

CNCMill_operations == {"cutting", "drilling", "idle"}
RoboticArm_tasks == {"load_material", "unload_part", "assemble_component", "idle"}
ConveyorBelt_positions == {"Station A", "Station B", "Inspection", "Exit"}
InspectionSystem_decisions == {"PASS", "FAIL"}

CNCMill_perform_operation(op, tool) == [operation |-> op, tool_id |-> tool]
RoboticArm_perform_operation(task) == [robotic_arm_task |-> task]
\* f"PART-{1000 + cycle_id}": the prefix and the number
ConveyorBelt_perform_operation(position, cycle_id) ==
    [conveyor_position |-> position, part_id |-> <<"PART-", 1000 + cycle_id>>]
InspectionSystem_perform_operation(decision, confidence) ==
    [inspection_result |-> decision, inspection_confidence |-> confidence]

read_real_data ==
    [operation |-> "cutting",
     tool_id |-> 2,
     spindle_temp |-> Fx(82, 50),
     vibration |-> Fx(1, 10),
     power_draw |-> Fx(310, 20),
     position |-> [X |-> Fx(50, 0), Y |-> Fx(30, 0), Z |-> Fx(10, 0)],
     inspection |-> "PASS"]

\* variant: the whole substitute mapping taken as the readings
substitute_readings_all(real) == real

\* run_cycle: the five readings taken from the substitute mapping
substitute_readings(real) ==
    [k \in {"spindle_temp", "vibration", "power_draw", "position", "inspection"}
        |-> real[k]]

\* get_data_source: the substitute readings, or None
get_data_source(mode) == IF mode = "REAL" THEN read_real_data ELSE None

\* SimulationMessage.__init__
SimulationMessage(cycle_id, now, m, s) ==
    [cycle_id |-> cycle_id, timestamp |-> now, machine |-> m, sensors |-> s]

\* SimulationMessage.to_json: the JSON object, as the mapping it denotes (keys
\* are strings and values are numbers, strings and objects, which json.loads
\* gives back as written)
to_json(message) ==
    dict_update(dict_update([cycle_id |-> message.cycle_id,
                             timestamp |-> message.timestamp],
                            message.machine),
                message.sensors)

---------------------------------------------------------------------------
(* Labels and the KG sources *)

MaintenanceSeq == <<"Maintenance_KG:Possible_Overheating",
                    "Maintenance_KG:Spindle_Overheat",
                    "Maintenance_KG:Minor_Position_Drift",
                    "Maintenance_KG:Tool_Change">>
CyberattackSeq == <<"Cyberattack_KG:Possible_Glitch/Firmware",
                    "Cyberattack_KG:Likely_Glitch/Firmware",
                    "Cyberattack_KG:Possible_Vibration_Sabotage",
                    "Cyberattack_KG:Likely_Vibration_Sabotage",
                    "Cyberattack_KG:Major_Position_Change">>
NormalSeq == <<"Normal_KG:Inspection_Fail", "Normal_KG:Operation_Normal">>
PowerDrawSeq == <<"PowerDraw_KG:Possible_Elevated_Load",
                  "PowerDraw_KG:High_Power_Consumption">>
Labels == Range(MaintenanceSeq) \cup Range(CyberattackSeq)
              \cup Range(NormalSeq) \cup Range(PowerDrawSeq)

\* sub in s, for the category names send_to_KG looks for in a label
str_contains(sub, s) ==
    CASE sub = "Maintenance_KG" -> s \in Range(MaintenanceSeq)
      [] sub = "Normal_KG" -> s \in Range(NormalSeq)
      [] sub = "Cyberattack_KG" -> s \in Range(CyberattackSeq)
      [] sub = "PowerDraw_KG" -> s \in Range(PowerDrawSeq)

\* the triple send_to_KG attaches to a label
kg_lookup(c, mmap, nmap, cmap) ==
    IF str_contains("Maintenance_KG", c) THEN dict_get(mmap, c)
    ELSE IF str_contains("Normal_KG", c) THEN dict_get(nmap, c)
    ELSE IF str_contains("Cyberattack_KG", c) THEN dict_get(cmap, c)
    ELSE None

\* send_to_KG: the record printed
send_to_KG(payload, c, mmap, nmap, cmap) ==
    dict_update(payload,
        [kg_node |-> c, kg_triple |-> kg_lookup(c, mmap, nmap, cmap)])

MAINTENANCE_FILE == "maintenance-kg.csv"
NORMAL_FILE == "normal-kg.csv"
CYBERATTACK_FILE == "cyberattack-kg.csv"
\* the source of the fourth category, which the program never opens
POWERDRAW_FILE == "powerdraw-kg.csv"
KGFiles == {MAINTENANCE_FILE, NORMAL_FILE, CYBERATTACK_FILE, POWERDRAW_FILE}

\* one data line of a source; pad blanks surround the cells
KGRow(label, pad) ==
    ("Source entity" :> <<pad, label, pad>>)
        @@ ("relationship" :> <<0, "indicates", pad>>)
        @@ ("target entity" :> <<pad, "target of " \o label, 0>>)
KGRows(labels, pad) == [i \in DOMAIN labels |-> KGRow(labels[i], pad)]
\* the same lines of a source whose header lacks the relationship column
NoRelationship(rows) ==
    [i \in DOMAIN rows |->
        [k \in DOMAIN rows[i] \ {"relationship"} |-> rows[i][k]]]

MissingFile == [exists |-> FALSE, openable |-> FALSE, rows |-> <<>>]
UnopenableFile == [exists |-> TRUE, openable |-> FALSE, rows |-> <<>>]
TableFile(rows) == [exists |-> TRUE, openable |-> TRUE, rows |-> rows]

AllMissing == [f \in KGFiles |-> MissingFile]
Populated ==
    (MAINTENANCE_FILE :> TableFile(KGRows(MaintenanceSeq, 1)))
        @@ (NORMAL_FILE :> TableFile(KGRows(SubSeq(NormalSeq, 2, 2), 0)))
        @@ (CYBERATTACK_FILE :> TableFile(KGRows(CyberattackSeq, 0)))
        @@ (POWERDRAW_FILE :> TableFile(KGRows(PowerDrawSeq, 0)))
\* sources the program can start with
GoodEnvs == {AllMissing, Populated}
\* sources of which one exists and cannot be read
BadFiles == {UnopenableFile, TableFile(NoRelationship(KGRows(NormalSeq, 0)))}
BadEnvs ==
    {[f \in KGFiles |-> IF f = g THEN b ELSE Populated[f]] :
        g \in KGFiles \ {POWERDRAW_FILE}, b \in BadFiles}

---------------------------------------------------------------------------
(* Bounds and the values drawn *)

NUM_CYCLES == 5
CYCLE_DELAY == 1
DefaultTools == <<1, 2, 3, 4, 5>>

MaxCycles == 10        \* the longest run explored
MaxToolId == 5         \* tool ids of the inputs are -1 .. MaxToolId
MaxToolListLen == 2    \* tool lists other than the default one
MaxCycleId == 21       \* direct tool changer calls take -MaxCycleId .. MaxCycleId

\* values of Sensor.read(), within each sensor's range and rounding
SpindleTempSensor_read == {Fx(60, 0), Fx(95, 0)}
VibrationSensor_read == {Fx(1, 10), Fx(3, 60)}
PowerDrawSensor_read == {Fx(310, 20), Fx(410, 0)}
PositionEncoder_read ==
    {[X |-> Fx(50, 0), Y |-> Fx(30, 0), Z |-> Fx(10, 0)],
     [X |-> Fx(61, 0), Y |-> Fx(30, 0), Z |-> Fx(10, 0)]}
VisionQCSensor_read == {"PASS", "FAIL"}
SensorReads ==
    [spindle_temp : SpindleTempSensor_read, vibration : VibrationSensor_read,
     power_draw : PowerDrawSensor_read, position : PositionEncoder_read,
     inspection : VisionQCSensor_read]
\* values of round(random.uniform(0.7, 1.0), 2)
InspectionSystem_confidences == {Fx(0, 70), Fx(1, 0)}

SensorConfigs == {SensorNames, SensorNames \ {"inspection"}}

\* inputs of classify_state: values on and next to every threshold
SpindleTempInputs == {Fx(60, 0), Fx(75, 0), Fx(75, 1), Fx(90, 0), Fx(90, 1)}
VibrationInputs == {Fx(1, 0), Fx(1, 50), Fx(1, 51), Fx(3, 50), Fx(3, 51)}
PowerDrawInputs == {Fx(300, 0), Fx(350, 0), Fx(350, 10), Fx(399, 90), Fx(400, 0)}
PositionInputs ==
    {[X |-> Fx(50, 0) + dx, Y |-> Fx(30, 0) + dy, Z |-> Fx(10, 0) + dz] :
        dx \in {0, Fx(5, 0), Fx(5, 10), -Fx(10, 0), -Fx(10, 10)},
        dy \in {0, Fx(10, 10)},
        dz \in {0, -Fx(5, 10)}}
    \cup {[X |-> Fx(50, 0), Y |-> Fx(30, 0)], [X |-> Fx(61, 0), Z |-> Fx(10, 0)]}
FullInputs ==
    [spindle_temp : SpindleTempInputs, vibration : VibrationInputs,
     power_draw : PowerDrawInputs, position : PositionInputs,
     inspection : {"PASS", "FAIL"}]
\* every input with any of its fields missing
ClassifyInputs == {[k \in D |-> r[k]] : r \in FullInputs, D \in SUBSET SensorNames}
MachineInputs ==
    {[operation |-> "cutting"]}
        \cup {[operation |-> "cutting", tool_id |-> t] : t \in (-1)..MaxToolId}

ToolLists ==
    {DefaultTools}
        \cup UNION {[1..n -> 1..MaxToolId] : n \in 1..MaxToolListLen}
CycleIds == (-MaxCycleId)..MaxCycleId

---------------------------------------------------------------------------
(* The program *)

\* state of run_cycle's locals outside a cycle
NoLocals ==
    /\ machine_data = EmptyDict
    /\ sensor_readings = EmptyDict
    /\ msg = None
    /\ classification = "unset"
    /\ read_calls = 0
    /\ record = None

Init ==
    /\ fs \in GoodEnvs \cup BadEnvs
    /\ maintenance_map = EmptyDict
    /\ normal_map = EmptyDict
    /\ cyberattack_map = EmptyDict
    /\ MODE \in {"SIM", "REAL"}
    /\ sensors \in SensorConfigs
    /\ tools = DefaultTools
    /\ current_tool = ATC_init(tools)
    /\ num_cycles \in {NUM_CYCLES, MaxCycles}
    /\ cycle = 1
    /\ pc = "load_maintenance"
    /\ NoLocals
    /\ clock = 0
    /\ stdout = <<>>
    /\ atc_arg = 0
    /\ atc_ret = 0

\* maintenance_map = load_kg_csv("maintenance-kg.csv")
LoadMaintenance ==
    /\ pc = "load_maintenance"
    /\ LET r == load_kg_csv(fs[MAINTENANCE_FILE]) IN
        IF r.raised
        THEN pc' = "startup_failed" /\ UNCHANGED maintenance_map
        ELSE pc' = "load_normal" /\ maintenance_map' = r.mapping
    /\ UNCHANGED <<fs, normal_map, cyberattack_map, MODE, sensors, tools,
                   current_tool, num_cycles, cycle, machine_data,
                   sensor_readings, msg, classification, read_calls, clock,
                   record, stdout, atc_arg, atc_ret>>

\* normal_map = load_kg_csv("normal-kg.csv")
LoadNormal ==
    /\ pc = "load_normal"
    /\ LET r == load_kg_csv(fs[NORMAL_FILE]) IN
        IF r.raised
        THEN pc' = "startup_failed" /\ UNCHANGED normal_map
        ELSE pc' = "load_cyberattack" /\ normal_map' = r.mapping
    /\ UNCHANGED <<fs, maintenance_map, cyberattack_map, MODE, sensors, tools,
                   current_tool, num_cycles, cycle, machine_data,
                   sensor_readings, msg, classification, read_calls, clock,
                   record, stdout, atc_arg, atc_ret>>

\* cyberattack_map = load_kg_csv("cyberattack-kg.csv"); the main block follows
\* and enters the run loop
LoadCyberattack ==
    /\ pc = "load_cyberattack"
    /\ LET r == load_kg_csv(fs[CYBERATTACK_FILE]) IN
        IF r.raised
        THEN pc' = "startup_failed" /\ UNCHANGED cyberattack_map
        ELSE pc' = "machines" /\ cyberattack_map' = r.mapping
    /\ UNCHANGED <<fs, maintenance_map, normal_map, MODE, sensors, tools,
                   current_tool, num_cycles, cycle, machine_data,
                   sensor_readings, msg, classification, read_calls, clock,
                   record, stdout, atc_arg, atc_ret>>

\* run_cycle, the loop over the machines
PerformOperations ==
    /\ pc = "machines"
    /\ \E op \in CNCMill_operations,
          t \in check_and_change_tool(current_tool, tools, cycle),
          task \in RoboticArm_tasks,
          position \in ConveyorBelt_positions,
          decision \in InspectionSystem_decisions,
          confidence \in InspectionSystem_confidences :
        /\ current_tool' = t
        /\ atc_arg' = cycle
        /\ atc_ret' = t
        /\ machine_data' =
             dict_update(
               dict_update(
                 dict_update(
                   dict_update(EmptyDict, CNCMill_perform_operation(op, t)),
                   RoboticArm_perform_operation(task)),
                 ConveyorBelt_perform_operation(position, cycle)),
               InspectionSystem_perform_operation(decision, confidence))
    /\ pc' = "sensors"
    /\ UNCHANGED <<fs, maintenance_map, normal_map, cyberattack_map, MODE,
                   sensors, tools, num_cycles, cycle, sensor_readings, msg,
                   classification, read_calls, clock, record, stdout>>

\* run_cycle, the sensor readings: the substitute set, or every sensor's read()
ReadSensors ==
    /\ pc = "sensors"
    /\ LET real == get_data_source(MODE) IN
        IF real # None
        THEN /\ sensor_readings' = substitute_readings(real)
             /\ read_calls' = read_calls
        ELSE \E r \in SensorReads :
             /\ sensor_readings' = [n \in sensors |-> r[n]]
             /\ read_calls' = read_calls + Cardinality(sensors)
    /\ pc' = "classify"
    /\ UNCHANGED <<fs, maintenance_map, normal_map, cyberattack_map, MODE,
                   sensors, tools, current_tool, num_cycles, cycle,
                   machine_data, msg, classification, clock, record, stdout,
                   atc_arg, atc_ret>>

\* run_cycle: msg = SimulationMessage(...); classification = classify_state(...)
\* A KeyError is caught nowhere and ends the program.
Classify ==
    /\ pc = "classify"
    /\ msg' = SimulationMessage(cycle, clock, machine_data, sensor_readings)
    /\ LET c == classify_state(sensor_readings, machine_data) IN
        IF c = KeyError
        THEN pc' = "crashed" /\ UNCHANGED classification
        ELSE pc' = "send" /\ classification' = c
    /\ UNCHANGED <<fs, maintenance_map, normal_map, cyberattack_map, MODE,
                   sensors, tools, current_tool, num_cycles, cycle,
                   machine_data, sensor_readings, read_calls, clock, record,
                   stdout, atc_arg, atc_ret>>

\* variant: the payload printed too, ahead of the record
SendToKG_payload_printed ==
    /\ pc = "send"
    /\ record' = send_to_KG(to_json(msg), classification,
                            maintenance_map, normal_map, cyberattack_map)
    /\ stdout' = Append(Append(stdout, msg.cycle_id), record'.cycle_id)
    /\ pc' = "sleep"
    /\ UNCHANGED <<fs, maintenance_map, normal_map, cyberattack_map, MODE,
                   sensors, tools, current_tool, num_cycles, cycle,
                   machine_data, sensor_readings, msg, classification,
                   read_calls, clock, atc_arg, atc_ret>>

\* run_cycle: send_to_KG(msg.to_json(), classification)
SendToKG ==
    /\ pc = "send"
    /\ record' = send_to_KG(to_json(msg), classification,
                            maintenance_map, normal_map, cyberattack_map)
    /\ stdout' = Append(stdout, record'.cycle_id)
    /\ pc' = "sleep"
    /\ UNCHANGED <<fs, maintenance_map, normal_map, cyberattack_map, MODE,
                   sensors, tools, current_tool, num_cycles, cycle,
                   machine_data, sensor_readings, msg, classification,
                   read_calls, clock, atc_arg, atc_ret>>

\* the run loop: run_cycle has returned and its locals are gone; sleep, then the
\* next cycle or the end of the range
Sleep ==
    /\ pc = "sleep"
    /\ clock' = clock + CYCLE_DELAY
    /\ machine_data' = EmptyDict
    /\ sensor_readings' = EmptyDict
    /\ msg' = None
    /\ classification' = "unset"
    /\ read_calls' = 0
    /\ record' = None
    /\ IF cycle < num_cycles
       THEN cycle' = cycle + 1 /\ pc' = "machines"
       ELSE pc' = "done" /\ UNCHANGED cycle
    /\ UNCHANGED <<fs, maintenance_map, normal_map, cyberattack_map, MODE,
                   sensors, tools, current_tool, num_cycles, stdout, atc_arg,
                   atc_ret>>

Next ==
    \/ LoadMaintenance
    \/ LoadNormal
    \/ LoadCyberattack
    \/ PerformOperations
    \/ ReadSensors
    \/ Classify
    \/ SendToKG
    \/ Sleep

Spec == Init /\ [][Next]_vars

---------------------------------------------------------------------------
(* classify_state on its own: every input drawn, then the call *)

InitClassify ==
    /\ fs = AllMissing
    /\ maintenance_map = EmptyDict
    /\ normal_map = EmptyDict
    /\ cyberattack_map = EmptyDict
    /\ MODE = "SIM"
    /\ sensors = SensorNames
    /\ tools = DefaultTools
    /\ current_tool = ATC_init(tools)
    /\ num_cycles = NUM_CYCLES
    /\ cycle = 1
    /\ pc = "classify"
    /\ machine_data \in MachineInputs
    /\ sensor_readings \in ClassifyInputs
    /\ msg = None
    /\ classification = "unset"
    /\ read_calls = 0
    /\ record = None
    /\ clock = 0
    /\ stdout = <<>>
    /\ atc_arg = 0
    /\ atc_ret = 0

NextClassify == Classify

SpecClassify == InitClassify /\ [][NextClassify]_vars

---------------------------------------------------------------------------
(* The tool changer on its own: any tool list, any sequence of calls *)

InitATC ==
    /\ fs = AllMissing
    /\ maintenance_map = EmptyDict
    /\ normal_map = EmptyDict
    /\ cyberattack_map = EmptyDict
    /\ MODE = "SIM"
    /\ sensors = SensorNames
    /\ tools \in ToolLists
    /\ current_tool = ATC_init(tools)
    /\ num_cycles = NUM_CYCLES
    /\ cycle = 1
    /\ pc = "atc"
    /\ NoLocals
    /\ clock = 0
    /\ stdout = <<>>
    /\ atc_arg = 0
    /\ atc_ret = 0

\* atc.check_and_change_tool(cycle_id)
CheckAndChangeTool ==
    /\ pc = "atc"
    /\ \E cycle_id \in CycleIds :
        \E t \in check_and_change_tool(current_tool, tools, cycle_id) :
            /\ current_tool' = t
            /\ atc_arg' = cycle_id
            /\ atc_ret' = t
    /\ UNCHANGED <<fs, maintenance_map, normal_map, cyberattack_map, MODE,
                   sensors, tools, num_cycles, cycle, pc, machine_data,
                   sensor_readings, msg, classification, read_calls, clock,
                   record, stdout>>

NextATC == CheckAndChangeTool

SpecATC == InitATC /\ [][NextATC]_vars

---------------------------------------------------------------------------
(* The documented cascade, rules 1 to 10, as the specification words it *)

Rules == 1..10

\* the fields rule i reads are there
RulePresent(i, s) ==
    CASE i = 1 -> "spindle_temp" \in DOMAIN s
      [] i = 2 -> /\ "spindle_temp" \in DOMAIN s
                  /\ (s.spindle_temp > 9000 => "power_draw" \in DOMAIN s)
      [] i \in {3, 4} -> "vibration" \in DOMAIN s
      [] i \in {5, 6} -> "power_draw" \in DOMAIN s
      [] i = 7 -> "position" \in DOMAIN s /\ {"X", "Y", "Z"} \subseteq DOMAIN s.position
      [] i = 9 -> "inspection" \in DOMAIN s
      [] OTHER -> TRUE

Deviates(pos, limit) ==
    \/ pos.X - 5000 > limit \/ 5000 - pos.X > limit
    \/ pos.Y - 3000 > limit \/ 3000 - pos.Y > limit
    \/ pos.Z - 1000 > limit \/ 1000 - pos.Z > limit

\* rule i's predicate holds
RuleMatches(i, s, m) ==
    /\ RulePresent(i, s)
    /\ CASE i = 1 -> 7500 < s.spindle_temp /\ s.spindle_temp <= 9000
         [] i = 2 -> s.spindle_temp > 9000
         [] i = 3 -> 150 < s.vibration /\ s.vibration <= 350
         [] i = 4 -> s.vibration > 350
         [] i = 5 -> 35000 <= s.power_draw /\ s.power_draw < 40000
         [] i = 6 -> s.power_draw >= 40000
         [] i = 7 -> Deviates(s.position, 500)
         [] i = 8 -> "tool_id" \in DOMAIN m /\ m.tool_id \notin {1, 2, 3}
         [] i = 9 -> s.inspection = "FAIL"
         [] i = 10 -> TRUE

\* rule i's label
RuleLabel(i, s) ==
    CASE i = 1 -> "Maintenance_KG:Possible_Overheating"
      [] i = 2 -> IF 35000 < s.power_draw /\ s.power_draw < 40000
                  THEN "Cyberattack_KG:Possible_Glitch/Firmware"
                  ELSE IF s.power_draw >= 40000
                  THEN "Cyberattack_KG:Likely_Glitch/Firmware"
                  ELSE "Maintenance_KG:Spindle_Overheat"
      [] i = 3 -> "Cyberattack_KG:Possible_Vibration_Sabotage"
      [] i = 4 -> "Cyberattack_KG:Likely_Vibration_Sabotage"
      [] i = 5 -> "PowerDraw_KG:Possible_Elevated_Load"
      [] i = 6 -> "PowerDraw_KG:High_Power_Consumption"
      [] i = 7 -> IF Deviates(s.position, 1000)
                  THEN "Cyberattack_KG:Major_Position_Change"
                  ELSE "Maintenance_KG:Minor_Position_Drift"
      [] i = 8 -> "Maintenance_KG:Tool_Change"
      [] i = 9 -> "Normal_KG:Inspection_Fail"
      [] i = 10 -> "Normal_KG:Operation_Normal"

\* the rule at which the evaluation ends: the first that matches or that reads a
\* field that is not there
RuleStops(i, s, m) == ~RulePresent(i, s) \/ RuleMatches(i, s, m)
FirstRule(s, m) ==
    CHOOSE i \in Rules : RuleStops(i, s, m) /\ \A j \in 1..(i - 1) : ~RuleStops(j, s, m)

WellFormedSensors(s) ==
    /\ DOMAIN s = {"spindle_temp", "vibration", "power_draw", "position", "inspection"}
    /\ DOMAIN s.position = {"X", "Y", "Z"}
    /\ s.inspection \in {"PASS", "FAIL"}
WellFormed(s, m) ==
    /\ WellFormedSensors(s)
    /\ ("tool_id" \in DOMAIN m => m.tool_id \in 1..5)

Classified == pc \in {"send", "crashed"}

---------------------------------------------------------------------------
(* Claims on classify_state, under SpecClassify *)

\* C1: for every well-formed input (all five sensor fields, inspection PASS or
\* FAIL, tool_id in 1..5 or absent) classify_state returns a label, and it is
\* the label of the first rule of the documented cascade that the input satisfies.
C1_FirstMatchingRule ==
    (Classified /\ WellFormed(sensor_readings, machine_data)) =>
        /\ pc = "send"
        /\ classification \in Labels
        /\ classification =
             RuleLabel(FirstRule(sensor_readings, machine_data), sensor_readings)

\* an input that satisfies three rules before the default, classified
C1_Witness ==
    /\ pc = "send"
    /\ WellFormed(sensor_readings, machine_data)
    /\ Cardinality({i \in 1..9 : RuleMatches(i, sensor_readings, machine_data)}) >= 3
    /\ RuleMatches(4, sensor_readings, machine_data)
    /\ RuleMatches(6, sensor_readings, machine_data)
    /\ classification = "Cyberattack_KG:Likely_Vibration_Sabotage"

\* C2, as claimed: an input whose spindle_temp is exactly 90.0 is never
\* classified Maintenance_KG:Possible_Overheating (branch 2 decides it).
C2_Original ==
    (Classified /\ "spindle_temp" \in DOMAIN sensor_readings
        /\ sensor_readings.spindle_temp = 9000) =>
        classification # "Maintenance_KG:Possible_Overheating"

\* C2, amended: an input whose spindle_temp is exactly 90.0 is decided by branch 1
\* and is Maintenance_KG:Possible_Overheating whatever the other fields hold or
\* lack; branch 2 decides the inputs above 90.0 (90.01 is the first), and gives
\* one of its three labels or fails on a missing power_draw.
C2_BoundaryIsBranchOne ==
    (Classified /\ "spindle_temp" \in DOMAIN sensor_readings) =>
        /\ sensor_readings.spindle_temp = 9000 =>
             pc = "send" /\ classification = "Maintenance_KG:Possible_Overheating"
        /\ sensor_readings.spindle_temp = 9001 =>
             IF "power_draw" \in DOMAIN sensor_readings
             THEN /\ pc = "send"
                  /\ classification \in {"Cyberattack_KG:Possible_Glitch/Firmware",
                                         "Cyberattack_KG:Likely_Glitch/Firmware",
                                         "Maintenance_KG:Spindle_Overheat"}
             ELSE pc = "crashed"

\* spindle_temp 90.0 with a power_draw of 400.0, which branch 2 would have made
\* Likely_Glitch/Firmware
C2_Witness ==
    /\ pc = "send"
    /\ WellFormedSensors(sensor_readings)
    /\ sensor_readings.spindle_temp = 9000
    /\ sensor_readings.power_draw = 40000
    /\ classification = "Maintenance_KG:Possible_Overheating"

\* C6: when the evaluation of the cascade reaches a rule that reads a sensor
\* field missing from sensor_readings, classify_state fails with the missing
\* field error and yields no label; no later rule decides the input.
C6_MissingFieldFails ==
    (Classified /\ ~RulePresent(FirstRule(sensor_readings, machine_data),
                                sensor_readings)) =>
        pc = "crashed" /\ classification = "unset"

\* only inspection is missing, rules 1 to 8 do not match, and the call failed
C6_Witness ==
    /\ pc = "crashed"
    /\ DOMAIN sensor_readings = SensorNames \ {"inspection"}
    /\ FirstRule(sensor_readings, machine_data) = 9

\* C8, as claimed: when no rule 1 to 7 matches, the result is
\* Maintenance_KG:Tool_Change for every tool_id that is present and not 1, 2 or 3
\* (0 and negative ids included), and a rule 9 or 10 label only when tool_id is
\* absent or is 1, 2 or 3.
C8_ToolChangeForEveryOtherId ==
    (Classified /\ WellFormedSensors(sensor_readings)
        /\ \A i \in 1..7 : ~RuleMatches(i, sensor_readings, machine_data)) =>
        IF "tool_id" \in DOMAIN machine_data /\ machine_data.tool_id \notin {1, 2, 3}
        THEN classification = "Maintenance_KG:Tool_Change"
        ELSE classification \in {"Normal_KG:Inspection_Fail",
                                 "Normal_KG:Operation_Normal"}

---------------------------------------------------------------------------
(* Claim on the tool changer, under SpecATC *)

\* C4: current_tool starts as the first element of the tool list, is a member of
\* the list after any sequence of check_and_change_tool calls, and a call whose
\* cycle_id is not a multiple of 10 leaves current_tool as it was and returns it.
C4_ToolChanger ==
    /\ current_tool = tools[1]
    /\ [](current_tool \in Range(tools))
    /\ [][atc_arg' % 10 # 0 => (current_tool' = current_tool /\ atc_ret' = current_tool)]_vars

\* a tool other than the first is mounted, and the last call, not on a multiple
\* of 10, returned it
C4_Witness ==
    /\ pc = "atc"
    /\ atc_arg % 10 # 0
    /\ current_tool # tools[1]
    /\ atc_ret = current_tool

---------------------------------------------------------------------------
(* Claims on the program, under Spec *)

\* the reference table a source holds: each label of its Source entity column
\* with the relationship and target entity of the last line that names it
SourceTable(file) ==
    IF ~file.exists THEN EmptyDict
    ELSE [l \in {file.rows[i]["Source entity"][2] : i \in DOMAIN file.rows} |->
            LET last == SetMax({i \in DOMAIN file.rows :
                                   file.rows[i]["Source entity"][2] = l})
            IN [relationship |-> file.rows[last]["relationship"][2],
                target_entity |-> file.rows[last]["target entity"][2]]]

\* the source of a label's category
CategoryFile(label) ==
    IF label \in Range(MaintenanceSeq) THEN MAINTENANCE_FILE
    ELSE IF label \in Range(NormalSeq) THEN NORMAL_FILE
    ELSE IF label \in Range(CyberattackSeq) THEN CYBERATTACK_FILE
    ELSE POWERDRAW_FILE

\* C3, as claimed: for a label of any of the four categories, the printed
\* record's kg_triple is the entry of that label in the reference table of the
\* label's category when the table has one, and null when the table is empty
\* or lacks the label.
C3_TripleOfEveryCategory ==
    pc = "sleep" =>
        LET table == SourceTable(fs[CategoryFile(record.kg_node)]) IN
            IF record.kg_node \in DOMAIN table
            THEN record.kg_triple = table[record.kg_node]
            ELSE record.kg_triple = None

\* a source cannot be read: it exists, and open() fails or a data line lacks one
\* of the three columns
Unreadable(file) ==
    /\ file.exists
    /\ \/ ~file.openable
       \/ \E i \in DOMAIN file.rows :
            ~({"Source entity", "relationship", "target entity"} \subseteq DOMAIN file.rows[i])

\* C5, as claimed: loading never fails startup, and a source that is missing or
\* cannot be read leaves its table empty.
C5_LoadNeverFails ==
    /\ pc # "startup_failed"
    /\ (pc \notin {"load_maintenance"}
          /\ (~fs[MAINTENANCE_FILE].exists \/ Unreadable(fs[MAINTENANCE_FILE])))
        => maintenance_map = EmptyDict
    /\ (pc \notin {"load_maintenance", "load_normal"}
          /\ (~fs[NORMAL_FILE].exists \/ Unreadable(fs[NORMAL_FILE])))
        => normal_map = EmptyDict
    /\ (pc \notin {"load_maintenance", "load_normal", "load_cyberattack"}
          /\ (~fs[CYBERATTACK_FILE].exists \/ Unreadable(fs[CYBERATTACK_FILE])))
        => cyberattack_map = EmptyDict

\* C7: in a cycle run with MODE REAL, sensor_readings is the fixed bundle and no
\* sensor was read, while machine_data is the merge of the machines' results of
\* this cycle: its tool_id is the tool changer's value, not the substitute's.
C7_RealData ==
    (MODE = "REAL" /\ pc \in {"classify", "send", "sleep", "crashed"}) =>
        /\ sensor_readings =
             [spindle_temp |-> 8250, vibration |-> 110, power_draw |-> 31020,
              position |-> [X |-> 5000, Y |-> 3000, Z |-> 1000],
              inspection |-> "PASS"]
        /\ read_calls = 0
        /\ DOMAIN machine_data =
             {"operation", "tool_id", "robotic_arm_task", "conveyor_position",
              "part_id", "inspection_result", "inspection_confidence"}
        /\ machine_data.tool_id = current_tool
        /\ machine_data.tool_id = atc_ret /\ atc_arg = cycle
        /\ machine_data.tool_id \in Range(tools)
        /\ machine_data.operation \in {"cutting", "drilling", "idle"}
        /\ machine_data.part_id = <<"PART-", 1000 + cycle>>
        /\ pc = "sleep" =>
             /\ record.tool_id = current_tool
             /\ record.operation = machine_data.operation
             /\ record.spindle_temp = 8250

\* cycle 10 under REAL: the tool changer has mounted a tool other than the
\* substitute's 2 and the first, the operation is not the substitute's, and the
\* record carries them with the substitute readings
C7_Witness ==
    /\ MODE = "REAL"
    /\ pc = "sleep"
    /\ cycle = 10
    /\ current_tool = 4
    /\ record.tool_id = 4
    /\ record.operation = "idle"
    /\ record.power_draw = 31020
    /\ record.kg_node = "Maintenance_KG:Possible_Overheating"

\* C9: the records printed carry strictly increasing cycle_ids; every cycle that
\* has finished printed exactly one record, with its cycle_id, kg_node and
\* kg_triple; a cycle that is still running or has aborted has printed none, and
\* no record of a later cycle exists.
C9_OneRecordPerCycle ==
    /\ \A i, j \in DOMAIN stdout : i < j => stdout[i] < stdout[j]
    /\ \A k \in 1..(cycle - 1) : Cardinality({i \in DOMAIN stdout : stdout[i] = k}) = 1
    /\ Cardinality({i \in DOMAIN stdout : stdout[i] = cycle}) =
         IF pc \in {"sleep", "done"} THEN 1 ELSE 0
    /\ \A i \in DOMAIN stdout : stdout[i] <= cycle
    /\ pc = "sleep" =>
         /\ record.cycle_id = cycle
         /\ record.kg_node = classification
         /\ record.kg_node \in Labels
         /\ "kg_triple" \in DOMAIN record

\* a run in which cycles 1 and 2 printed their records and cycle 3 aborted
C9_Witness ==
    /\ pc = "crashed"
    /\ cycle = 3
    /\ stdout = <<1, 2>>

\* C10: with the default tool list, before cycle 10 the tool changer holds tool 1,
\* machine_data has tool_id 1 and Maintenance_KG:Tool_Change is not the label of
\* any record; the default run of cycles 1..5 is such a run throughout.
C10_NoToolChangeBeforeCycle10 ==
    /\ tools = <<1, 2, 3, 4, 5>>
    /\ num_cycles = 5 => cycle < 10
    /\ cycle < 10 =>
         /\ current_tool = 1
         /\ "tool_id" \in DOMAIN machine_data => machine_data.tool_id = 1
         /\ pc \in {"send", "sleep"} => classification # "Maintenance_KG:Tool_Change"
         /\ pc = "sleep" =>
              record.tool_id = 1 /\ record.kg_node # "Maintenance_KG:Tool_Change"

\* the last cycle of the default run printed a record for which rules 1 to 7 did
\* not match and the tool rule was evaluated
C10_Witness ==
    /\ num_cycles = 5
    /\ cycle = 5
    /\ pc = "sleep"
    /\ record.tool_id = 1
    /\ record.kg_node = "Normal_KG:Inspection_Fail"

=============================================================================
